---- MODULE Spec2Model ----
(***************************************************************************)
(* State-machine model of the document embedding / retrieval store,        *)
(* backend/embeddings.py (class DocumentEmbeddings).                       *)
(*                                                                         *)
(* A text is a sequence of one-character strings.  A metadata dict is a    *)
(* function from key strings to values.  The vector index is the record    *)
(* [d, xb]: the dimension and the stored rows (ntotal = Len(xb)).  The     *)
(* index file is the record [exists, readable, data]: data is the pickled  *)
(* dict, a function from its keys to their values.  `sessions` holds the   *)
(* Streamlit sessions that use the one cached store, where a               *)
(* specification has them (otherwise it is the empty tuple).  `heap` holds  *)
(* the Python dict objects by reference where a specification tells        *)
(* objects apart (otherwise it is the empty tuple and `metadata` holds     *)
(* the dicts themselves).                                                  *)
(***************************************************************************)
EXTENDS Integers, Sequences, FiniteSets, TLC

VARIABLES index, documents, metadata, disk, last, faults, sessions, heap

vars == <<index, documents, metadata, disk, last, faults, sessions, heap>>

(***************************************************************************)
(* Program constants.                                                      *)
(***************************************************************************)
dimension == 384

AddChunkSize == 512

AddOverlap == 50

(***************************************************************************)
(* Bounds of the model.                                                    *)
(***************************************************************************)
\* add_document is not called once the store holds this many chunks.
MaxChunks == 2

\* at most this many failures are injected in one run: a call of model.encode
\* that raises, a write of the index file that fails
MaxFaults == 2

(***************************************************************************)
(* Small helpers.                                                          *)
(***************************************************************************)
Min(a, b) == IF a <= b THEN a ELSE b

Max(a, b) == IF a >= b THEN a ELSE b

RECURSIVE SumOver(_, _)
\* the sum of f over the finite set S
SumOver(f, S) ==
    IF S = {} THEN 0
    ELSE LET x == CHOOSE y \in S : TRUE
         IN  f[x] + SumOver(f, S \ {x})

\* dict.get(key, default)
Get(d, key, default) == IF key \in DOMAIN d THEN d[key] ELSE default

\* the value None of dict.get(key)
None == "None"

(***************************************************************************)
(* str.split(), ' '.join(...), str.strip()                                 *)
(***************************************************************************)
IsSpace(c) == c \in {" ", "\n"}

IsWordStart(text, i) == ~IsSpace(text[i]) /\ (i = 1 \/ IsSpace(text[i - 1]))

\* the positions of text at which a word starts, ascending (by halving the
\* range lo..hi, which keeps the evaluation depth logarithmic)
WordStarts(text) ==
    LET F[p \in (1..Len(text)) \X (1..Len(text))] ==
            LET lo  == p[1]
                hi  == p[2]
                mid == (lo + hi) \div 2
            IN  IF lo = hi
                THEN (IF IsWordStart(text, lo) THEN <<lo>> ELSE <<>>)
                ELSE F[<<lo, mid>>] \o F[<<mid + 1, hi>>]
    IN  IF Len(text) = 0 THEN <<>> ELSE F[<<1, Len(text)>>]

WordEnd(text, s) ==
    CHOOSE e \in s..Len(text) :
        /\ e = Len(text) \/ IsSpace(text[e + 1])
        /\ \A j \in s..e : ~IsSpace(text[j])

\* text.split(): the maximal runs of non-whitespace characters, in order
split(text) ==
    LET st == WordStarts(text)
    IN  [k \in 1..Len(st) |-> SubSeq(text, st[k], WordEnd(text, st[k]))]

\* ' '.join(ws), by halving the range of words
join(ws) ==
    LET F[p \in (1..Len(ws)) \X (1..Len(ws))] ==
            LET lo  == p[1]
                hi  == p[2]
                mid == (lo + hi) \div 2
            IN  IF lo = hi THEN ws[lo]
                ELSE F[<<lo, mid>>] \o <<" ">> \o F[<<mid + 1, hi>>]
    IN  IF Len(ws) = 0 THEN <<>> ELSE F[<<1, Len(ws)>>]

\* truth value of chunk.strip()
StripNonEmpty(chunk) == \E i \in 1..Len(chunk) : ~IsSpace(chunk[i])

(***************************************************************************)
(* _chunk_text: [raised, chunks].  range() raises ValueError on a zero     *)
(* step and is empty on a negative one.                                    *)
(***************************************************************************)
RangeStarts(n, step) ==
    IF step > 0 THEN [j \in 1..((n + step - 1) \div step) |-> (j - 1) * step]
    ELSE <<>>

\* _chunk_text returning the chunk list as it is, empty or not
_chunk_text_NoFallback(text, chunk_size, overlap) ==
    LET words  == split(text)
        n      == Len(words)
        step   == chunk_size - overlap
        starts == RangeStarts(n, step)
        wins   == [j \in 1..Len(starts) |->
                      join(SubSeq(words, starts[j] + 1, Min(starts[j] + chunk_size, n)))]
        chunks == SelectSeq(wins, StripNonEmpty)
    IN  IF step = 0 THEN [raised |-> TRUE, chunks |-> <<>>]
        ELSE [raised |-> FALSE, chunks |-> chunks]

\* _chunk_text advancing by chunk_size + overlap
_chunk_text_StridePlusOverlap(text, chunk_size, overlap) ==
    LET words  == split(text)
        n      == Len(words)
        step   == chunk_size + overlap
        starts == RangeStarts(n, step)
        wins   == [j \in 1..Len(starts) |->
                      join(SubSeq(words, starts[j] + 1, Min(starts[j] + chunk_size, n)))]
        chunks == SelectSeq(wins, StripNonEmpty)
    IN  IF step = 0 THEN [raised |-> TRUE, chunks |-> <<>>]
        ELSE [raised |-> FALSE,
              chunks |-> IF chunks # <<>> THEN chunks ELSE <<text>>]

\* _chunk_text with windows as long as the stride (words[i:i + step])
_chunk_text_WindowOfStride(text, chunk_size, overlap) ==
    LET words  == split(text)
        n      == Len(words)
        step   == chunk_size - overlap
        starts == RangeStarts(n, step)
        wins   == [j \in 1..Len(starts) |->
                      join(SubSeq(words, starts[j] + 1, Min(starts[j] + step, n)))]
        chunks == SelectSeq(wins, StripNonEmpty)
    IN  IF step = 0 THEN [raised |-> TRUE, chunks |-> <<>>]
        ELSE [raised |-> FALSE,
              chunks |-> IF chunks # <<>> THEN chunks ELSE <<text>>]

_chunk_text(text, chunk_size, overlap) ==
    LET words  == split(text)
        n      == Len(words)
        step   == chunk_size - overlap
        starts == RangeStarts(n, step)
        wins   == [j \in 1..Len(starts) |->
                      join(SubSeq(words, starts[j] + 1, Min(starts[j] + chunk_size, n)))]
        chunks == SelectSeq(wins, StripNonEmpty)
    IN  IF step = 0 THEN [raised |-> TRUE, chunks |-> <<>>]
        ELSE [raised |-> FALSE,
              chunks |-> IF chunks # <<>> THEN chunks ELSE <<text>>]

(***************************************************************************)
(* The embedding model and the vector index.                               *)
(*                                                                         *)
(* SentenceTransformer.encode is an external capability: a deterministic   *)
(* map from a text to a vector of `dimension` numbers that may raise.  The *)
(* model fixes one such map: weight 2 on the coordinate chosen by the      *)
(* text's length.  A vector is written as the function from its non-zero   *)
(* coordinates (within 1..dimension) to their values; every other          *)
(* coordinate is 0.  normalize_L2 divides each row by its Euclidean norm   *)
(* (exact on these axis-aligned rows) and leaves a zero row alone.         *)
(***************************************************************************)
Embed(text) == ((Len(text) % dimension) + 1) :> 2

\* model.encode(texts): one row per text
encode(texts) == [t \in 1..Len(texts) |-> Embed(texts[t])]

Isqrt(n) == CHOOSE r \in 0..n : r * r <= n /\ (r + 1) * (r + 1) > n

NormalizeRow(v) ==
    LET n2 == SumOver([i \in DOMAIN v |-> v[i] * v[i]], DOMAIN v)
    IN  IF n2 = 0 THEN v ELSE [i \in DOMAIN v |-> v[i] \div Isqrt(n2)]

\* faiss.normalize_L2(matrix), row by row
normalize_L2(rows) == [r \in 1..Len(rows) |-> NormalizeRow(rows[r])]

\* faiss.IndexFlatIP(d)
IndexFlatIP(d) == [d |-> d, xb |-> <<>>]

ntotal(ix) == Len(ix.xb)

\* index.add(rows)
IndexAdd(ix, rows) == [ix EXCEPT !.xb = @ \o rows]

InnerProduct(u, v) ==
    LET both == DOMAIN u \cap DOMAIN v
    IN  SumOver([i \in both |-> u[i] * v[i]], both)

\* The order of two rows in a result list: higher score first; rows of equal
\* score in the order the build's top-k selection happens to produce, which
\* faiss does not fix: "first" is lower position first, "last" the reverse.
TieRules == {"first", "last"}

Before(scores, i, j, tie) ==
    \/ scores[i] > scores[j]
    \/ scores[i] = scores[j] /\ (IF tie = "first" THEN i <= j ELSE i >= j)

RECURSIVE TopK(_, _, _, _)
TopK(scores, cand, k, tie) ==
    IF k <= 0 \/ cand = {} THEN <<>>
    ELSE LET best == CHOOSE i \in cand : \A j \in cand : Before(scores, i, j, tie)
         IN  <<best>> \o TopK(scores, cand \ {best}, k - 1, tie)

\* index.search(q, k): the k best rows as [score, idx], idx 0-based
IndexSearch(ix, q, k, tie) ==
    LET scores == [i \in 1..ntotal(ix) |-> InnerProduct(q, ix.xb[i])]
        order  == TopK(scores, 1..ntotal(ix), k, tie)
    IN  [j \in 1..Len(order) |-> [score |-> scores[order[j]], idx |-> order[j] - 1]]

RECURSIVE RowCodes(_, _, _)
\* the non-zero entries of row r as <<r, coordinate, value>>, ascending
RowCodes(v, r, S) ==
    IF S = {} THEN <<>>
    ELSE LET c == CHOOSE x \in S : \A y \in S : x <= y
         IN  <<(<<r, c, v[c]>>)>> \o RowCodes(v, r, S \ {c})

RECURSIVE Codes(_, _)
\* rows r..ntotal flattened into one array, row after row
Codes(xb, r) ==
    IF r > Len(xb) THEN <<>>
    ELSE RowCodes(xb[r], r, DOMAIN xb[r]) \o Codes(xb, r + 1)

\* serialize_index writing a row count one short
serialize_index_ShortCount(ix) ==
    [d |-> ix.d,
     ntotal |-> IF ntotal(ix) > 0 THEN ntotal(ix) - 1 ELSE 0,
     codes |-> Codes(ix.xb, 1)]

\* faiss.serialize_index: the header and the rows flattened into one array
serialize_index(ix) ==
    [d |-> ix.d, ntotal |-> ntotal(ix), codes |-> Codes(ix.xb, 1)]

\* faiss.deserialize_index: the rows cut out of the array again
deserialize_index(b) ==
    [d  |-> b.d,
     xb |-> [r \in 1..b.ntotal |->
                LET mine == {j \in 1..Len(b.codes) : b.codes[j][1] = r}
                IN  [c \in {b.codes[j][2] : j \in mine} |->
                        b.codes[CHOOSE j \in mine : b.codes[j][2] = c][3]]]]

(***************************************************************************)
(* The store: [index, documents, metadata].                                *)
(***************************************************************************)
\* __init__ before load_index (lines 15-17)
EmptyStore == [index |-> IndexFlatIP(dimension), documents |-> <<>>, metadata |-> <<>>]

Store == [index |-> index, documents |-> documents, metadata |-> metadata]

\* the index file does not exist
NoFile == [exists |-> FALSE, readable |-> FALSE, data |-> <<>>]

\* the file exists and open() or pickle.load() raises on it (truncated, garbage)
Unreadable == [exists |-> TRUE, readable |-> FALSE, data |-> <<>>]

\* What the write in save_index does: "written", or open()/makedirs raise and
\* leave the file as it was, or open(.., 'wb') truncates the file and
\* pickle.dump raises before the blob is complete.
WriteOutcomes == {"written", "open_failed", "dump_failed"}

\* save_index: returns nothing and raises nothing, whatever the write does
save_index(s, d, w) ==
    IF w = "open_failed" THEN d
    ELSE IF w = "dump_failed" THEN Unreadable
    ELSE [exists   |-> TRUE,
          readable |-> TRUE,
          data     |-> [index     |-> serialize_index(s.index),
                        documents |-> s.documents,
                        metadata  |-> s.metadata]]

\* an except branch that resets nothing
load_except_KeepsPartial(s) == s

\* an except branch that resets the two lists and keeps the index
load_except_KeepsIndex(s) == [s EXCEPT !.documents = <<>>, !.metadata = <<>>]

\* the except branch of load_index (lines 161-165)
load_except(s) == EmptyStore

\* load_index on the store s that __init__ has just made
load_index(s, d) ==
    IF ~d.exists THEN s
    ELSE IF ~d.readable THEN load_except(s)
    ELSE IF "index" \notin DOMAIN d.data THEN load_except(s)
    ELSE LET s1 == [s EXCEPT !.index = deserialize_index(d.data["index"])]
         IN  IF "documents" \notin DOMAIN d.data THEN load_except(s1)
             ELSE LET s2 == [s1 EXCEPT !.documents = d.data["documents"]]
                  IN  IF "metadata" \notin DOMAIN d.data THEN load_except(s2)
                      ELSE [s2 EXCEPT !.metadata = d.data["metadata"]]

\* DocumentEmbeddings()
Construct(d) == load_index(EmptyStore, d)

(***************************************************************************)
(* The texts add_document is called with.                                  *)
(***************************************************************************)
TextShort == <<"a", " ", "b">>

\* whitespace only: no word, so _chunk_text returns the text itself
TextBlank == <<" ">>

\* one word more than a chunk holds: two chunks
TextLong == [i \in 1..(2 * (AddChunkSize + 1) - 1) |-> IF i % 2 = 1 THEN "a" ELSE " "]

Texts == {TextShort, TextLong}

\* self._chunk_text(text, chunk_size=512, overlap=50) (line 25) for each input
\* text; `@@ <<>>` changes nothing and makes TLC tabulate the function once
AddChunking == [t \in Texts |-> _chunk_text(t, AddChunkSize, AddOverlap)] @@ <<>>

(***************************************************************************)
(* add_document.  encFail is the 1-based call of model.encode that raises  *)
(* within this add_document (0: none does); w is what the write in         *)
(* save_index does.  The result is [store, disk, ret, write].              *)
(***************************************************************************)
\* chunk_metadata numbering the chunks from 1
ChunkMetadata_OneBased(meta, i, chunk) ==
    ("chunk_id" :> i + 1) @@ ("chunk_text" :> chunk) @@ meta

\* chunk_metadata (lines 39-41): a copy of metadata with two keys set
ChunkMetadata(meta, i, chunk) ==
    ("chunk_id" :> i) @@ ("chunk_text" :> chunk) @@ meta

\* AddChunk with the chunk stored before it is encoded
AddChunk_StoreBeforeEncode(a, i, chunk, meta, fails) ==
    IF fails
    THEN [raised |-> TRUE,
          st     |-> [a.st EXCEPT !.documents = Append(@, chunk)]]
    ELSE LET embedding == normalize_L2(encode(<<chunk>>))
         IN  [raised |-> FALSE,
              st     |-> [index     |-> IndexAdd(a.st.index, embedding),
                          documents |-> Append(a.st.documents, chunk),
                          metadata  |-> Append(a.st.metadata,
                                               ChunkMetadata(meta, i, chunk))]]

\* one iteration of the loop (lines 27-42) on [st, raised]; i is 0-based
AddChunk(a, i, chunk, meta, fails) ==
    IF fails THEN [a EXCEPT !.raised = TRUE]
    ELSE LET embedding == normalize_L2(encode(<<chunk>>))
         IN  [raised |-> FALSE,
              st     |-> [index     |-> IndexAdd(a.st.index, embedding),
                          documents |-> Append(a.st.documents, chunk),
                          metadata  |-> Append(a.st.metadata,
                                               ChunkMetadata(meta, i, chunk))]]

RECURSIVE AddChunks(_, _, _, _, _)
\* the loop from its i-th iteration on; an exception leaves it
AddChunks(a, chunks, meta, i, encFail) ==
    IF a.raised \/ i >= Len(chunks) THEN a
    ELSE AddChunks(AddChunk(a, i, chunks[i + 1], meta, encFail = i + 1),
                   chunks, meta, i + 1, encFail)

\* add_document that, when the write fails, falls back to what the file holds
add_document_ReloadOnWriteFailure(s, d, text, meta, encFail, w) ==
    LET ct == AddChunking[text]
        a  == IF ct.raised THEN [st |-> s, raised |-> TRUE]
              ELSE AddChunks([st |-> s, raised |-> FALSE], ct.chunks, meta, 0, encFail)
        d2 == save_index(a.st, d, w)
    IN  IF a.raised
        THEN [store |-> a.st, disk |-> d, ret |-> FALSE, write |-> "none"]
        ELSE [store |-> IF w = "written" THEN a.st ELSE load_index(EmptyStore, d2),
              disk |-> d2, ret |-> TRUE, write |-> w]

add_document(s, d, text, meta, encFail, w) ==
    LET ct == AddChunking[text]
        a  == IF ct.raised THEN [st |-> s, raised |-> TRUE]
              ELSE AddChunks([st |-> s, raised |-> FALSE], ct.chunks, meta, 0, encFail)
    IN  IF a.raised
        THEN [store |-> a.st, disk |-> d, ret |-> FALSE, write |-> "none"]
        ELSE [store |-> a.st, disk |-> save_index(a.st, d, w), ret |-> TRUE, write |-> w]

(***************************************************************************)
(* remove_document.  encFail: model.encode raises in _rebuild_index.       *)
(***************************************************************************)
\* del seq[idx], idx 0-based and within the list
Del(seq, idx) == SubSeq(seq, 1, idx) \o SubSeq(seq, idx + 2, Len(seq))

\* indices_to_remove stopping at the first match
IndicesToRemove_FirstOnly(s, document_id) ==
    LET hit(i) == Get(s.metadata[i], "document_id", None) = document_id
        F[i \in 0..Len(s.metadata)] ==
            IF i = 0 THEN <<>>
            ELSE IF hit(i) /\ F[i - 1] = <<>> THEN <<i - 1>> ELSE F[i - 1]
    IN  F[Len(s.metadata)]

\* indices_to_remove (lines 98-101), ascending and 0-based
IndicesToRemove(s, document_id) ==
    LET hit(i) == Get(s.metadata[i], "document_id", None) = document_id
        F[i \in 0..Len(s.metadata)] ==
            IF i = 0 THEN <<>>
            ELSE IF hit(i) THEN Append(F[i - 1], i - 1) ELSE F[i - 1]
    IN  F[Len(s.metadata)]

RECURSIVE RemoveAscending(_, _, _)
RemoveAscending(a, idxs, k) ==
    IF a.raised \/ k > Len(idxs) THEN a
    ELSE LET idx == idxs[k]
         IN  IF idx >= Len(a.st.documents) \/ idx >= Len(a.st.metadata)
             THEN [a EXCEPT !.raised = TRUE]
             ELSE RemoveAscending(
                      [st |-> [a.st EXCEPT !.metadata = Del(@, idx),
                                           !.documents = Del(@, idx)],
                       raised |-> FALSE], idxs, k + 1)

\* RemoveAt deleting the positions first to last, so that each deletion
\* shifts the positions still to delete
RemoveAt_Ascending(a, idxs, n) == RemoveAscending(a, idxs, 1)

RECURSIVE RemoveAt(_, _, _)
\* the deletion loop (lines 104-106) over idxs[1..n], last first;
\* del raises IndexError on a position the list does not have
RemoveAt(a, idxs, n) ==
    IF a.raised \/ n = 0 THEN a
    ELSE LET idx == idxs[n]
             m   == [a.st EXCEPT !.metadata = Del(@, idx)]
         IN  IF idx >= Len(a.st.documents)
             THEN [st |-> m, raised |-> TRUE]
             ELSE RemoveAt([st |-> [m EXCEPT !.documents = Del(@, idx)],
                            raised |-> FALSE], idxs, n - 1)

\* _rebuild_index encoding the chunks last to first
_rebuild_index_Reversed(a, encFail) ==
    LET fresh == [a.st EXCEPT !.index = IndexFlatIP(dimension)]
        n     == Len(fresh.documents)
    IN  IF fresh.documents = <<>> THEN [st |-> fresh, raised |-> FALSE]
        ELSE IF encFail THEN [st |-> fresh, raised |-> TRUE]
        ELSE [st     |-> [fresh EXCEPT !.index =
                              IndexAdd(@, normalize_L2(encode(
                                  [i \in 1..n |-> fresh.documents[n + 1 - i]])))],
              raised |-> FALSE]

\* _rebuild_index on [st, raised]
_rebuild_index(a, encFail) ==
    LET fresh == [a.st EXCEPT !.index = IndexFlatIP(dimension)]
    IN  IF fresh.documents = <<>> THEN [st |-> fresh, raised |-> FALSE]
        ELSE IF encFail THEN [st |-> fresh, raised |-> TRUE]
        ELSE [st     |-> [fresh EXCEPT !.index =
                              IndexAdd(@, normalize_L2(encode(fresh.documents)))],
              raised |-> FALSE]

\* remove_document that saves before it rebuilds the index
remove_document_SaveBeforeRebuild(s, d, document_id, encFail, w) ==
    LET idxs == IndicesToRemove(s, document_id)
        a1   == RemoveAt([st |-> s, raised |-> FALSE], idxs, Len(idxs))
        d1   == IF a1.raised THEN d ELSE save_index(a1.st, d, w)
        a2   == IF a1.raised THEN a1 ELSE _rebuild_index(a1, encFail)
    IN  IF a2.raised
        THEN [store |-> a2.st, disk |-> d1, ret |-> FALSE, write |-> "none"]
        ELSE [store |-> a2.st, disk |-> d1, ret |-> TRUE, write |-> w]

remove_document(s, d, document_id, encFail, w) ==
    LET idxs == IndicesToRemove(s, document_id)
        a1   == RemoveAt([st |-> s, raised |-> FALSE], idxs, Len(idxs))
        a2   == IF a1.raised THEN a1 ELSE _rebuild_index(a1, encFail)
    IN  IF a2.raised
        THEN [store |-> a2.st, disk |-> d, ret |-> FALSE, write |-> "none"]
        ELSE [store |-> a2.st, disk |-> save_index(a2.st, d, w), ret |-> TRUE, write |-> w]

(***************************************************************************)
(* The read-only operations.                                               *)
(***************************************************************************)
\* get_document_stats counting metadata entries, not distinct document ids
get_document_stats_CountsChunks(s) ==
    [total_chunks    |-> Len(s.documents),
     total_documents |-> Len(s.metadata),
     index_size      |-> ntotal(s.index)]

get_document_stats(s) ==
    [total_chunks    |-> Len(s.documents),
     total_documents |->
         Cardinality({Get(s.metadata[i], "document_id", "") : i \in 1..Len(s.metadata)}),
     index_size      |-> ntotal(s.index)]

\* search passing k to index.search unclamped: faiss fills the missing hits
\* with index -1, which Python reads as the last stored chunk
search_Unclamped(s, query, k, tie) ==
    IF ntotal(s.index) = 0 THEN <<>>
    ELSE IF k <= 0 THEN <<>>
    ELSE LET q    == normalize_L2(encode(<<query>>))[1]
             hits == IndexSearch(s.index, q, Min(k, ntotal(s.index)), tie)
             pad  == [j \in 1..(k - Len(hits)) |-> [score |-> -1, idx |-> Len(s.metadata) - 1]]
             all  == hits \o pad
             kept == SelectSeq(all, LAMBDA h : h.idx < Len(s.metadata))
         IN  IF \E j \in 1..Len(kept) : kept[j].idx >= Len(s.documents) \/ kept[j].idx < 0
             THEN <<>>
             ELSE [j \in 1..Len(kept) |->
                      ("similarity_score" :> kept[j].score)
                      @@ ("text" :> s.documents[kept[j].idx + 1])
                      @@ s.metadata[kept[j].idx + 1]]

\* search: index.search raises on k <= 0 and documents[idx] on a position the
\* list does not have; the except branch returns []
search(s, query, k, tie) ==
    IF ntotal(s.index) = 0 THEN <<>>
    ELSE IF Min(k, ntotal(s.index)) <= 0 THEN <<>>
    ELSE LET q    == normalize_L2(encode(<<query>>))[1]
             hits == IndexSearch(s.index, q, Min(k, ntotal(s.index)), tie)
             kept == SelectSeq(hits, LAMBDA h : h.idx < Len(s.metadata))
         IN  IF \E j \in 1..Len(kept) : kept[j].idx >= Len(s.documents) THEN <<>>
             ELSE [j \in 1..Len(kept) |->
                      ("similarity_score" :> kept[j].score)
                      @@ ("text" :> s.documents[kept[j].idx + 1])
                      @@ s.metadata[kept[j].idx + 1]]

\* search with model.encode raising in it (no try around the body)
search_try_NoExcept(s, query, k, tie, encFail) ==
    IF ntotal(s.index) = 0 THEN [raises |-> FALSE, result |-> <<>>]
    ELSE IF encFail THEN [raises |-> TRUE, result |-> <<>>]
    ELSE [raises |-> FALSE, result |-> search(s, query, k, tie)]

\* search as its caller sees it when model.encode (line 57) may raise:
\* encFail makes it raise, and the except (lines 72-74) returns []
search_try(s, query, k, tie, encFail) ==
    IF ntotal(s.index) = 0 THEN [raises |-> FALSE, result |-> <<>>]
    ELSE IF encFail THEN [raises |-> FALSE, result |-> <<>>]
    ELSE [raises |-> FALSE, result |-> search(s, query, k, tie)]

get_similar_chunks(s, document_id, k) ==
    LET idxs == IndicesToRemove(s, document_id)
    IN  IF \E j \in 1..Len(idxs) : idxs[j] >= Len(s.documents) THEN <<>>
        ELSE LET doc_chunks == [j \in 1..Len(idxs) |-> s.documents[idxs[j] + 1]]
             IN  IF k >= 0 THEN SubSeq(doc_chunks, 1, Min(k, Len(doc_chunks)))
                 ELSE SubSeq(doc_chunks, 1, Len(doc_chunks) + k)

(***************************************************************************)
(* Inputs.                                                                 *)
(***************************************************************************)
DocIds == {"d1", "d2"}

\* the caller's metadata
MetaInputs ==
    {[document_id |-> "d1", title |-> "T1"],
     [document_id |-> "d2", title |-> "T2"]}

\* ids remove_document is called with; "d9" is never added
RemoveIds == DocIds \cup {"d9"}

\* result counts from below zero to above what the store can hold
AllKs == {-1, 0, 1, 2, 10}

\* the queries and result counts the properties search with (the library
\* page searches with k = 10)
Queries == {TextShort, <<"z">>}

SearchKs == {1, 10}

\* which call of model.encode raises in an add_document (0: none)
EncodeFailures == {0, 1, 2}

\* the index file the first process finds: none, or one it cannot read, or a
\* pickled dict without the 'metadata' entry
PartialBlob ==
    [exists |-> TRUE, readable |-> TRUE,
     data |-> [index     |-> serialize_index(
                                 IndexAdd(IndexFlatIP(dimension),
                                          normalize_L2(encode(<<TextShort>>)))),
               documents |-> <<TextShort>>]]

InitialFiles == {NoFile, Unreadable, PartialBlob}

(***************************************************************************)
(* The state machine.  `last` records the call that led to the state:      *)
(* op, the document id it was about, what it returned, what its write did  *)
(* ("none": save_index was not reached) and whether it changed the store.  *)
(* `faults` counts the failures injected so far.                           *)
(***************************************************************************)
Init ==
    \E f \in InitialFiles :
        /\ disk = f
        /\ index = Construct(f).index
        /\ documents = Construct(f).documents
        /\ metadata = Construct(f).metadata
        /\ last = [op |-> "init", id |-> None, ret |-> TRUE,
                   write |-> "none", changed |-> FALSE]
        /\ faults = 0
        /\ sessions = <<>>
        /\ heap = <<>>

\* the failures a call met: it raised, its write failed
Faults(r) ==
    (IF r.ret THEN 0 ELSE 1) + (IF r.write \in {"open_failed", "dump_failed"} THEN 1 ELSE 0)

Apply(r, op, id) ==
    /\ faults + Faults(r) <= MaxFaults
    /\ faults' = faults + Faults(r)
    /\ UNCHANGED <<sessions, heap>>
    /\ index' = r.store.index
    /\ documents' = r.store.documents
    /\ metadata' = r.store.metadata
    /\ disk' = r.disk
    /\ last' = [op |-> op, id |-> id, ret |-> r.ret, write |-> r.write,
                changed |-> r.store # Store]

AddDocumentCall ==
    /\ Len(documents) < MaxChunks
    /\ \E text \in Texts, meta \in MetaInputs,
          encFail \in EncodeFailures, w \in WriteOutcomes :
          Apply(add_document(Store, disk, text, meta, encFail, w),
                "add", Get(meta, "document_id", None))

RemoveDocumentCall ==
    \E id \in RemoveIds, encFail \in BOOLEAN, w \in WriteOutcomes :
        Apply(remove_document(Store, disk, id, encFail, w), "remove", id)

\* the process ends and a new one constructs DocumentEmbeddings()
Restart ==
    /\ index' = Construct(disk).index
    /\ documents' = Construct(disk).documents
    /\ metadata' = Construct(disk).metadata
    /\ disk' = disk
    /\ last' = [op |-> "init", id |-> None, ret |-> TRUE,
                write |-> "none", changed |-> FALSE]
    /\ UNCHANGED <<faults, sessions, heap>>

Next == AddDocumentCall \/ RemoveDocumentCall \/ Restart

Spec == Init /\ [][Next]_vars

(***************************************************************************)
(* _chunk_text on its own.  The inputs are word lists written out as text   *)
(* in two ways, single spaces between the words or ragged whitespace        *)
(* around them, and the nine-word sentence; `last` records the call: the    *)
(* words the text was written from, the arguments, and what came back.      *)
(***************************************************************************)
\* bounds: the longest word list, the largest chunk_size
MaxWords == 4

MaxSize == 4

Vocabulary == {<<"a">>, <<"b", "c">>}

WordLists == UNION {[1..n -> Vocabulary] : n \in 0..MaxWords}

\* the words with whitespace before, between (two characters) and after
Ragged(words) ==
    LET F[i \in 0..Len(words)] ==
            IF i = 0 THEN <<" ">> ELSE F[i - 1] \o words[i] \o <<"\n", " ">>
    IN  F[Len(words)]

FoxWords ==
    << <<"t", "h", "e">>, <<"q", "u", "i", "c", "k">>, <<"b", "r", "o",
      "w", "n">>, <<"f", "o", "x">>, <<"j", "u", "m", "p", "s">>, <<"o",
      "v", "e", "r">>, <<"t", "h", "e">>, <<"l", "a", "z", "y">>, <<"d",
      "o", "g">>>>

TextFox ==
    <<"t", "h", "e", " ", "q", "u", "i", "c", "k", " ", "b", "r", "o",
    "w", "n", " ", "f", "o", "x", " ", "j", "u", "m", "p", "s", " ", "o",
    "v", "e", "r", " ", "t", "h", "e", " ", "l", "a", "z", "y", " ", "d",
    "o", "g">>

ChunkInputs ==
    {[words |-> w, text |-> join(w)] : w \in WordLists}
    \cup {[words |-> w, text |-> Ragged(w)] : w \in WordLists}
    \cup {[words |-> FoxWords, text |-> TextFox]}

ChunkSizes == 1..MaxSize

\* from below zero to above every chunk_size
Overlaps == -1..(MaxSize + 1)

ChunkInit ==
    /\ index = EmptyStore.index
    /\ documents = EmptyStore.documents
    /\ metadata = EmptyStore.metadata
    /\ disk = NoFile
    /\ faults = 0
    /\ sessions = <<>>
    /\ heap = <<>>
    /\ last = [op |-> "init", id |-> None, ret |-> TRUE,
               write |-> "none", changed |-> FALSE]

\* one call per behaviour: _chunk_text reads nothing but its arguments, so
\* a call after another call is the same call
ChunkTextCall ==
    /\ last.op = "init"
    /\ \E inp \in ChunkInputs, chunk_size \in ChunkSizes, overlap \in Overlaps :
          LET r == _chunk_text(inp.text, chunk_size, overlap)
          IN  last' = [op |-> "chunk", words |-> inp.words, text |-> inp.text,
                       chunk_size |-> chunk_size, overlap |-> overlap,
                       raised |-> r.raised, chunks |-> r.chunks]
    /\ UNCHANGED <<index, documents, metadata, disk, faults, sessions, heap>>

ChunkNext == ChunkTextCall

SpecChunk == ChunkInit /\ [][ChunkNext]_vars

(***************************************************************************)
(* Two sessions on the one cached store.  get_embeddings is decorated with *)
(* st.cache_resource, so every session's script run gets the same          *)
(* DocumentEmbeddings object, and each run is a thread of its own;         *)
(* embeddings.py takes no lock.  A session's record says where its thread  *)
(* is in add_document or remove_document (pc) and holds the call's locals. *)
(* A step is one statement on the shared object.  No call of model.encode  *)
(* raises and every write succeeds here.  `last` records whether two calls *)
(* have run at the same time and how many calls were started.              *)
(***************************************************************************)
SessionIds == {1, 2}

\* bound: calls started in one run
MaxCalls == 3

TextZ == <<"z">>

SharedTexts == {TextShort, TextZ}

Idle == [pc |-> "idle", id |-> None, meta |-> <<>>, chunks |-> <<>>, i |-> 0,
         idxs |-> <<>>, enc |-> <<>>]

Busy(u) == sessions[u].pc # "idle"

SharedInit ==
    /\ index = Construct(NoFile).index
    /\ documents = Construct(NoFile).documents
    /\ metadata = Construct(NoFile).metadata
    /\ disk = NoFile
    /\ faults = 0
    /\ sessions = [u \in SessionIds |-> Idle]
    /\ heap = <<>>
    /\ last = [op |-> "shared", overlapped |-> FALSE, calls |-> 0]

\* a session's thread enters a call
Enter(u, rec) ==
    /\ ~Busy(u)
    /\ last.calls < MaxCalls
    /\ sessions' = [sessions EXCEPT ![u] = rec]
    /\ last' = [last EXCEPT !.calls = @ + 1,
                            !.overlapped = @ \/ \E v \in SessionIds \ {u} : Busy(v)]

Goto(u, rec) == sessions' = [sessions EXCEPT ![u] = rec] /\ UNCHANGED last

\* add_document, lines 23-25: the text is chunked
AddEnter(u) ==
    /\ Len(documents) < MaxChunks
    /\ \E text \in SharedTexts, meta \in MetaInputs :
          Enter(u, [Idle EXCEPT !.pc = "index_add", !.id = meta.document_id,
                                !.meta = meta,
                                !.chunks = _chunk_text(text, AddChunkSize, AddOverlap).chunks])
    /\ UNCHANGED <<index, documents, metadata, disk, faults, heap>>

\* lines 29-34: the chunk is encoded and its vector added to the index
AddIndexAdd(u) ==
    /\ sessions[u].pc = "index_add"
    /\ index' = IndexAdd(index, normalize_L2(encode(<<sessions[u].chunks[sessions[u].i + 1]>>)))
    /\ Goto(u, [sessions[u] EXCEPT !.pc = "documents_append"])
    /\ UNCHANGED <<documents, metadata, disk, faults, heap>>

\* line 37
AddDocumentsAppend(u) ==
    /\ sessions[u].pc = "documents_append"
    /\ documents' = Append(documents, sessions[u].chunks[sessions[u].i + 1])
    /\ Goto(u, [sessions[u] EXCEPT !.pc = "metadata_append"])
    /\ UNCHANGED <<index, metadata, disk, faults, heap>>

\* lines 39-42, and the loop's next iteration or its end
AddMetadataAppend(u) ==
    LET me == sessions[u]
    IN  /\ me.pc = "metadata_append"
        /\ metadata' = Append(metadata, ChunkMetadata(me.meta, me.i, me.chunks[me.i + 1]))
        /\ Goto(u, [me EXCEPT !.i = @ + 1,
                              !.pc = IF me.i + 1 < Len(me.chunks) THEN "index_add" ELSE "save"])
        /\ UNCHANGED <<index, documents, disk, faults, heap>>

\* self.save_index() (lines 44 and 110) and the return
SaveAndReturn(u) ==
    /\ sessions[u].pc = "save"
    /\ disk' = save_index(Store, disk, "written")
    /\ Goto(u, Idle)
    /\ UNCHANGED <<index, documents, metadata, faults, heap>>

\* remove_document, lines 98-101: the positions to delete are collected
RemoveEnter(u) ==
    /\ \E id \in DocIds :
          LET idxs == IndicesToRemove(Store, id)
          IN  Enter(u, [Idle EXCEPT !.pc = IF idxs = <<>> THEN "rebuild_reset" ELSE "del_metadata",
                                    !.id = id, !.idxs = idxs])
    /\ UNCHANGED <<index, documents, metadata, disk, faults, heap>>

\* line 105: del self.metadata[idx] for the last position still to delete;
\* an IndexError goes to the except, which returns False
RemoveDelMetadata(u) ==
    LET me  == sessions[u]
        idx == me.idxs[Len(me.idxs)]
    IN  /\ me.pc = "del_metadata"
        /\ IF idx < Len(metadata)
           THEN metadata' = Del(metadata, idx) /\ Goto(u, [me EXCEPT !.pc = "del_documents"])
           ELSE metadata' = metadata /\ Goto(u, Idle)
        /\ UNCHANGED <<index, documents, disk, faults, heap>>

\* line 106: del self.documents[idx]
RemoveDelDocuments(u) ==
    LET me   == sessions[u]
        idx  == me.idxs[Len(me.idxs)]
        rest == SubSeq(me.idxs, 1, Len(me.idxs) - 1)
    IN  /\ me.pc = "del_documents"
        /\ IF idx < Len(documents)
           THEN /\ documents' = Del(documents, idx)
                /\ Goto(u, [me EXCEPT !.idxs = rest,
                                      !.pc = IF rest = <<>> THEN "rebuild_reset"
                                             ELSE "del_metadata"])
           ELSE documents' = documents /\ Goto(u, Idle)
        /\ UNCHANGED <<index, metadata, disk, faults, heap>>

\* _rebuild_index keeping the rows the index has
RebuildReset_KeepsRows(ix) == ix

\* _rebuild_index, line 130: a new, empty index
RebuildReset(ix) == IndexFlatIP(dimension)

\* lines 130-133: the index is replaced and the stored chunks are encoded
RemoveRebuildReset(u) ==
    /\ sessions[u].pc = "rebuild_reset"
    /\ index' = RebuildReset(index)
    /\ Goto(u, [sessions[u] EXCEPT
                   !.pc = IF documents = <<>> THEN "save" ELSE "rebuild_add",
                   !.enc = IF documents = <<>> THEN <<>>
                           ELSE normalize_L2(encode(documents))])
    /\ UNCHANGED <<documents, metadata, disk, faults, heap>>

\* line 135: self.index.add(embeddings)
RemoveRebuildAdd(u) ==
    /\ sessions[u].pc = "rebuild_add"
    /\ index' = IndexAdd(index, sessions[u].enc)
    /\ Goto(u, [sessions[u] EXCEPT !.pc = "save", !.enc = <<>>])
    /\ UNCHANGED <<documents, metadata, disk, faults, heap>>

SharedNext ==
    \E u \in SessionIds :
        \/ AddEnter(u)
        \/ AddIndexAdd(u)
        \/ AddDocumentsAppend(u)
        \/ AddMetadataAppend(u)
        \/ RemoveEnter(u)
        \/ RemoveDelMetadata(u)
        \/ RemoveDelDocuments(u)
        \/ RemoveRebuildReset(u)
        \/ RemoveRebuildAdd(u)
        \/ SaveAndReturn(u)

SpecShared == SharedInit /\ [][SharedNext]_vars

(***************************************************************************)
(* The lexical (keyword-overlap) backend.  The repository's source under   *)
(* src/ holds only the dense backend; this part follows the design's       *)
(* description of the lexical variant: query and chunk are cut at          *)
(* whitespace and lower-cased into sets of words, the score is             *)
(* |intersection| / max(|query words|, 1), chunks with an empty            *)
(* intersection are left out, the rest is sorted by descending score,      *)
(* equal scores in insertion order, and cut to k.  A score is the pair     *)
(* [num, den].                                                             *)
(***************************************************************************)
\* bound: chunks in a lexical store
MaxStored == 2

UpperToLower == ("D" :> "d") @@ ("E" :> "e") @@ ("G" :> "g") @@ ("I" :> "i")
                @@ ("L" :> "l") @@ ("N" :> "n") @@ ("P" :> "p") @@ ("R" :> "r")

lower(w) == [i \in 1..Len(w) |-> IF w[i] \in DOMAIN UpperToLower THEN UpperToLower[w[i]] ELSE w[i]]

lexical_words(text) == {lower(split(text)[i]) : i \in 1..Len(split(text))}

\* lexical_score dividing by the number of words of the chunk
lexical_score_OverChunkWords(query, chunk) ==
    [num |-> Cardinality(lexical_words(query) \cap lexical_words(chunk)),
     den |-> Max(Cardinality(lexical_words(chunk)), 1)]

lexical_score(query, chunk) ==
    [num |-> Cardinality(lexical_words(query) \cap lexical_words(chunk)),
     den |-> Max(Cardinality(lexical_words(query)), 1)]

lexical_search(chunks, query, k) ==
    LET score == [p \in 1..Len(chunks) |-> lexical_score(query, chunks[p])]
        cand  == {p \in 1..Len(chunks) : score[p].num > 0}
        rank(p) == 1 + Cardinality({q \in cand :
                        \/ score[q].num * score[p].den > score[p].num * score[q].den
                        \/ (score[q].num * score[p].den = score[p].num * score[q].den /\ q < p)})
        sorted == [r \in 1..Cardinality(cand) |-> CHOOSE p \in cand : rank(p) = r]
    IN  [r \in 1..Min(Max(k, 0), Len(sorted)) |->
            [text |-> chunks[sorted[r]], num |-> score[sorted[r]].num,
             den |-> score[sorted[r]].den]]

ChunkMachine ==
    <<"m", "a", "c", "h", "i", "n", "e", " ", "l", "e", "a", "r", "n",
    "i", "n", "g", " ", "m", "o", "d", "e", "l", "s">>

ChunkUnrelated ==
    <<"u", "n", "r", "e", "l", "a", "t", "e", "d", " ", "t", "e", "x",
    "t">>

ChunkDeep ==
    <<"D", "e", "e", "p", " ", "L", "e", "a", "r", "n", "i", "n", "g">>

QueryDeep ==
    <<"d", "e", "e", "p", " ", "l", "e", "a", "r", "n", "i", "n", "g">>

QueryRepeat ==
    <<"L", "E", "A", "R", "N", "I", "N", "G", " ", "d", "e", "e", "p",
      " ", "d", "e", "e", "p", " ", "l", "e", "a", "r", "n", "i", "n", "g">>

LexicalChunks == {ChunkMachine, ChunkUnrelated, ChunkDeep}

LexicalStores == UNION {[1..n -> LexicalChunks] : n \in 0..MaxStored}

LexicalQueries == {QueryDeep, QueryRepeat, <<>>}

LexicalInit ==
    /\ index = EmptyStore.index
    /\ documents = EmptyStore.documents
    /\ metadata = EmptyStore.metadata
    /\ disk = NoFile
    /\ faults = 0
    /\ sessions = <<>>
    /\ heap = <<>>
    /\ last = [op |-> "init", id |-> None, ret |-> TRUE,
               write |-> "none", changed |-> FALSE]

\* one search per behaviour on a store of chunks
LexicalSearchCall ==
    /\ last.op = "init"
    /\ \E chunks \in LexicalStores, query \in LexicalQueries, k \in AllKs :
          last' = [op |-> "lexical_search", chunks |-> chunks, query |-> query,
                   k |-> k, results |-> lexical_search(chunks, query, k)]
    /\ UNCHANGED <<index, documents, metadata, disk, faults, sessions, heap>>

LexicalNext == LexicalSearchCall

SpecLexical == LexicalInit /\ [][LexicalNext]_vars

(***************************************************************************)
(* Objects.  Here a dict is an object on `heap` (reference -> dict) and    *)
(* `metadata` is the list of references self.metadata holds; dict.copy()   *)
(* makes a new object, an assignment of a dict does not.  The caller of    *)
(* add_document owns the dict it passes; the caller of search gets the     *)
(* list of result dicts.  `last` records the call: the caller's object and *)
(* the dict it held when it called, and what the call returned.  Objects   *)
(* no one holds any more are dropped before the next call.                 *)
(***************************************************************************)
NewRef(h) == IF DOMAIN h = {} THEN 1
             ELSE 1 + CHOOSE r \in DOMAIN h : \A q \in DOMAIN h : q <= r

\* d.copy(): a new object with d's entries
dict_copy(h, r) == [heap |-> (NewRef(h) :> h[r]) @@ h, ref |-> NewRef(h)]

\* d[key] = val
dict_set(h, r, key, val) == [h EXCEPT ![r] = (key :> val) @@ @]

\* the store with the dicts in place of their references
Deref(h, s) ==
    [index |-> s.index, documents |-> s.documents,
     metadata |-> [i \in 1..Len(s.metadata) |-> h[s.metadata[i]]]]

\* only the objects self.metadata holds
Held(h, refs) == [r \in {refs[i] : i \in 1..Len(refs)} |-> h[r]]

\* the loop body writing chunk_id and chunk_text into the caller's dict
AddChunkRefs_NoCopy(a, i, chunk, caller) ==
    LET h2 == dict_set(dict_set(a.heap, caller, "chunk_id", i), caller, "chunk_text", chunk)
    IN  [heap      |-> h2,
         index     |-> IndexAdd(a.index, normalize_L2(encode(<<chunk>>))),
         documents |-> Append(a.documents, chunk),
         metadata  |-> Append(a.metadata, caller)]

\* one iteration of add_document's loop (lines 27-42), i 0-based, on
\* [heap, index, documents, metadata]
AddChunkRefs(a, i, chunk, caller) ==
    LET c  == dict_copy(a.heap, caller)
        h2 == dict_set(dict_set(c.heap, c.ref, "chunk_id", i), c.ref, "chunk_text", chunk)
    IN  [heap      |-> h2,
         index     |-> IndexAdd(a.index, normalize_L2(encode(<<chunk>>))),
         documents |-> Append(a.documents, chunk),
         metadata  |-> Append(a.metadata, c.ref)]

add_document_refs(a, text, caller) ==
    LET chunks == AddChunking[text].chunks
        F[i \in 0..Len(chunks)] ==
            IF i = 0 THEN a ELSE AddChunkRefs(F[i - 1], i - 1, chunks[i], caller)
    IN  F[Len(chunks)]

\* the result loop writing similarity_score and text into the stored dict
SearchResultRefs_NoCopy(a, hit, s) ==
    LET r  == s.metadata[hit.idx + 1]
        h2 == dict_set(dict_set(a.heap, r, "similarity_score", hit.score),
                       r, "text", s.documents[hit.idx + 1])
    IN  [heap |-> h2, results |-> Append(a.results, r)]

\* one iteration of search's result loop (lines 64-69) on [heap, results]
SearchResultRefs(a, hit, s) ==
    LET c  == dict_copy(a.heap, s.metadata[hit.idx + 1])
        h2 == dict_set(dict_set(c.heap, c.ref, "similarity_score", hit.score),
                       c.ref, "text", s.documents[hit.idx + 1])
    IN  [heap |-> h2, results |-> Append(a.results, c.ref)]

\* search on the store s of references; what the except returns is [] and
\* what the loop did before it stays done
search_refs(h, s, query, k, tie, encFail) ==
    LET none == [heap |-> h, results |-> <<>>]
    IN  IF ntotal(s.index) = 0 \/ encFail \/ Min(k, ntotal(s.index)) <= 0 THEN none
        ELSE LET q    == normalize_L2(encode(<<query>>))[1]
                 hits == IndexSearch(s.index, q, Min(k, ntotal(s.index)), tie)
                 kept == SelectSeq(hits, LAMBDA x : x.idx < Len(s.metadata))
                 F[j \in 0..Len(kept)] ==
                     IF j = 0 THEN none
                     ELSE IF kept[j].idx >= Len(s.documents) THEN F[j - 1]
                     ELSE SearchResultRefs(F[j - 1], kept[j], s)
             IN  IF \E j \in 1..Len(kept) : kept[j].idx >= Len(s.documents)
                 THEN [heap |-> F[Len(kept)].heap, results |-> <<>>]
                 ELSE F[Len(kept)]

RefsInit ==
    /\ index = EmptyStore.index
    /\ documents = EmptyStore.documents
    /\ metadata = EmptyStore.metadata
    /\ disk = NoFile
    /\ faults = 0
    /\ sessions = <<>>
    /\ heap = <<>>
    /\ last = [op |-> "init", caller |-> 0, given |-> <<>>, results |-> <<>>]

\* the caller builds its dict and calls add_document with it
RefsAddDocument ==
    /\ Len(documents) < MaxChunks
    /\ \E text \in Texts, meta \in MetaInputs :
          LET h0     == Held(heap, metadata)
              caller == NewRef(h0)
              a      == add_document_refs(
                            [heap |-> (caller :> meta) @@ h0, index |-> index,
                             documents |-> documents, metadata |-> metadata],
                            text, caller)
          IN  /\ heap' = a.heap
              /\ index' = a.index
              /\ documents' = a.documents
              /\ metadata' = a.metadata
              /\ disk' = save_index(Deref(a.heap, a), disk, "written")
              /\ last' = [op |-> "add", caller |-> caller, given |-> meta,
                          results |-> <<>>]
    /\ UNCHANGED <<faults, sessions>>

RefsSearch ==
    /\ \E q \in Queries, k \in AllKs, tie \in TieRules, encFail \in BOOLEAN :
          LET r == search_refs(Held(heap, metadata), Store, q, k, tie, encFail)
          IN  /\ heap' = r.heap
              /\ last' = [op |-> "search", caller |-> 0, given |-> <<>>,
                          results |-> r.results]
    /\ UNCHANGED <<index, documents, metadata, disk, faults, sessions>>

RefsGetSimilarChunks ==
    /\ \E id \in RemoveIds, k \in AllKs :
          last' = [op |-> "get_similar_chunks", caller |-> 0, given |-> <<>>,
                   results |-> get_similar_chunks(Deref(heap, Store), id, k)]
    /\ heap' = Held(heap, metadata)
    /\ UNCHANGED <<index, documents, metadata, disk, faults, sessions>>

RefsGetDocumentStats ==
    /\ last' = [op |-> "get_document_stats", caller |-> 0, given |-> <<>>,
                results |-> <<get_document_stats(Deref(heap, Store))>>]
    /\ heap' = Held(heap, metadata)
    /\ UNCHANGED <<index, documents, metadata, disk, faults, sessions>>

RefsNext ==
    \/ RefsAddDocument
    \/ RefsSearch
    \/ RefsGetSimilarChunks
    \/ RefsGetDocumentStats

SpecRefs == RefsInit /\ [][RefsNext]_vars

(***************************************************************************)
(* The Document Library page.  One browser session works the page;         *)
(* `sessions` is its st.session_state: the authenticated flag, whether the *)
(* 'documents' key is there, the documents list, and the uuid4 ids minted  *)
(* so far (an id is never minted twice).  The store is the one cached      *)
(* DocumentEmbeddings of the process, which no login or logout touches.    *)
(* Every script run of the page begins with initialize_session_state.      *)
(***************************************************************************)
LoggedOut == [authenticated |-> FALSE, has_documents |-> FALSE,
              documents |-> <<>>, minted |-> {}]

\* initialize_session_state: documents = [] if the key is absent
initialize_session_state(ss) ==
    IF ss.has_documents THEN ss
    ELSE [ss EXCEPT !.has_documents = TRUE, !.documents = <<>>]

\* logout: the keys are deleted from st.session_state
logout(ss) ==
    [ss EXCEPT !.authenticated = FALSE, !.has_documents = FALSE, !.documents = <<>>]

SessionDocIds(ss) == {ss.documents[i].id : i \in 1..Len(ss.documents)}

\* get_document_by_id: the first document with the id (found), or None
get_document_by_id(ss, doc_id) ==
    IF doc_id \in SessionDocIds(ss)
    THEN [found |-> TRUE,
          doc |-> ss.documents[CHOOSE i \in 1..Len(ss.documents) :
                      /\ ss.documents[i].id = doc_id
                      /\ \A j \in 1..(i - 1) : ss.documents[j].id # doc_id]]
    ELSE [found |-> FALSE, doc |-> None]

\* remove_document_by_id: deletes the first document with the id
remove_document_by_id(ss, doc_id) ==
    IF doc_id \notin SessionDocIds(ss) THEN [ret |-> FALSE, session |-> ss]
    ELSE LET i == CHOOSE n \in 1..Len(ss.documents) :
                      /\ ss.documents[n].id = doc_id
                      /\ \A j \in 1..(n - 1) : ss.documents[j].id # doc_id
         IN  [ret |-> TRUE,
              session |-> [ss EXCEPT !.documents =
                              SubSeq(@, 1, i - 1) \o SubSeq(@, i + 1, Len(@))]]

\* the metadata the upload handler passes to add_document
LibraryMeta(document) ==
    [document_id |-> document.id, title |-> document.title,
     type |-> "pdf", source |-> "upload"]

LibraryInit ==
    /\ index = EmptyStore.index
    /\ documents = EmptyStore.documents
    /\ metadata = EmptyStore.metadata
    /\ disk = NoFile
    /\ faults = 0
    /\ heap = <<>>
    /\ sessions = LoggedOut
    /\ last = [op |-> "init", id |-> None, hits |-> 0, unresolved |-> 0]

\* the store after a call of the page, within the bound on failures
LibraryStore(r) ==
    /\ faults + Faults(r) <= MaxFaults
    /\ faults' = faults + Faults(r)
    /\ index' = r.store.index
    /\ documents' = r.store.documents
    /\ metadata' = r.store.metadata
    /\ disk' = r.disk

\* the key is accepted: authenticated = True
LibraryLogin ==
    /\ ~sessions.authenticated
    /\ sessions' = [sessions EXCEPT !.authenticated = TRUE]
    /\ last' = [op |-> "login", id |-> None, hits |-> 0, unresolved |-> 0]
    /\ UNCHANGED <<index, documents, metadata, disk, faults, heap>>

\* the logout button of the page
LibraryLogout ==
    /\ sessions.authenticated
    /\ sessions' = logout(sessions)
    /\ last' = [op |-> "logout", id |-> None, hits |-> 0, unresolved |-> 0]
    /\ UNCHANGED <<index, documents, metadata, disk, faults, heap>>

\* 'Process Uploaded Files' with one file: the document gets a new uuid4
\* id, is appended to the session's documents and added to the store
LibraryUpload ==
    /\ sessions.authenticated
    /\ Len(documents) < MaxChunks
    /\ \E id \in DocIds \ sessions.minted, text \in Texts,
          encFail \in EncodeFailures, w \in WriteOutcomes :
          LET ss       == initialize_session_state(sessions)
              document == [id |-> id, title |-> "T", content |-> text]
          IN  /\ sessions' = [ss EXCEPT !.documents = Append(@, document),
                                        !.minted = @ \cup {id}]
              /\ LibraryStore(add_document(Store, disk, text,
                                           LibraryMeta(document), encFail, w))
              /\ last' = [op |-> "upload", id |-> id, hits |-> 0, unresolved |-> 0]
    /\ UNCHANGED heap

\* the Delete button of a listed document
LibraryDelete ==
    /\ sessions.authenticated
    /\ \E i \in 1..Len(sessions.documents), encFail \in BOOLEAN, w \in WriteOutcomes :
          LET ss == initialize_session_state(sessions)
              id == ss.documents[i].id
              r  == remove_document_by_id(ss, id)
          IN  /\ sessions' = r.session
              /\ IF r.ret
                 THEN LibraryStore(remove_document(Store, disk, id, encFail, w))
                 ELSE UNCHANGED <<index, documents, metadata, disk, faults>>
              /\ last' = [op |-> "delete", id |-> id, hits |-> 0, unresolved |-> 0]
    /\ UNCHANGED heap

\* a search in 'My Documents': embeddings.search(query, k=10), each hit looked
\* up with get_document_by_id and shown only if it is found
LibrarySearch ==
    /\ sessions.authenticated
    /\ \E q \in Queries, tie \in TieRules :
          LET ss      == initialize_session_state(sessions)
              results == search(Store, q, 10, tie)
              lost    == {j \in 1..Len(results) :
                             ~get_document_by_id(ss, results[j].document_id).found}
          IN  /\ sessions' = ss
              /\ last' = [op |-> "search", id |-> None, hits |-> Len(results),
                          unresolved |-> Cardinality(lost)]
    /\ UNCHANGED <<index, documents, metadata, disk, faults, heap>>

LibraryNext ==
    \/ LibraryLogin
    \/ LibraryLogout
    \/ LibraryUpload
    \/ LibraryDelete
    \/ LibrarySearch

SpecLibrary == LibraryInit /\ [][LibraryNext]_vars

(***************************************************************************)
(* Properties.                                                             *)
(***************************************************************************)

WriteFailed == last.write \in {"open_failed", "dump_failed"}

AfterCall == last.op \in {"add", "remove"}

\* some stored metadata names the document
Names(s, id) ==
    \E i \in 1..Len(s.metadata) : Get(s.metadata[i], "document_id", None) = id

\* nothing the store returns refers to the document
Gone(s, id) ==
    /\ ~Names(s, id)
    /\ \A q \in Queries, k \in SearchKs, tie \in TieRules :
          LET res == search(s, q, k, tie)
          IN  \A j \in 1..Len(res) : Get(res[j], "document_id", None) # id
    /\ \A k \in SearchKs : get_similar_chunks(s, id, k) = <<>>
    /\ get_document_stats(s).total_documents =
          Cardinality({Get(s.metadata[i], "document_id", "") :
                          i \in 1..Len(s.metadata)} \ {id})

\* C1: in every state reached by add_document and remove_document calls,
\* whether they succeed or fail, documents and metadata have the same length.
C1_StoreMetadataParity == Len(documents) = Len(metadata)

\* an add_document that raised on a later chunk and left earlier ones stored
C1_Witness ==
    /\ last.op = "add" /\ ~last.ret /\ last.changed
    /\ Len(documents) > 0 /\ Len(documents) = Len(metadata)

\* C2: after any add_document or remove_document call returns, True or False,
\* index_size equals total_chunks.
C2_IndexStoreParity ==
    AfterCall =>
        get_document_stats(Store).index_size = get_document_stats(Store).total_chunks

\* C3: an add_document that returns False leaves documents, metadata and the
\* index exactly as they were before the call.
C3_AddAllOrNothing == (last.op = "add" /\ ~last.ret) => ~last.changed

\* C4: once remove_document(id) has returned, no stored metadata, search
\* result, get_similar_chunks result or total_documents count refers to id,
\* and while no metadata names id this stays so on the instance until an
\* add_document for id.
C4_RemovalComplete ==
    [][\A id \in RemoveIds :
          /\ (last'.op = "remove" /\ last'.id = id) => Gone(Store', id)
          /\ (/\ ~Names(Store, id)
              /\ last'.op # "init"
              /\ ~(last'.op = "add" /\ last'.id = id)) => Gone(Store', id)]_vars

\* remove_document took a document's chunks out and left another's, which a
\* search still returns
C4_Witness ==
    /\ last.op = "remove" /\ last.changed /\ last.ret
    /\ ~Names(Store, last.id)
    /\ \E q \in Queries, tie \in TieRules : search(Store, q, 10, tie) # <<>>

\* C5: right after save_index has written the file, a fresh instance built
\* from it has the same get_document_stats and, for every query and k, the
\* same ordered search results.
C5_RoundTrip ==
    last.write = "written" =>
        LET fresh == Construct(disk)
        IN  /\ get_document_stats(fresh) = get_document_stats(Store)
            /\ \A q \in Queries, k \in SearchKs, tie \in TieRules :
                  search(fresh, q, k, tie) = search(Store, q, k, tie)

\* a written store of several chunks that a search finds
C5_Witness ==
    /\ last.write = "written"
    /\ Len(documents) >= 2
    /\ \E q \in Queries, tie \in TieRules : Len(search(Store, q, 10, tie)) >= 2

\* C6: after every add_document or remove_document call that changed the
\* store and whose write did not fail, the file holds exactly the in-memory
\* store.
C6_EagerPersistence ==
    (AfterCall /\ last.changed /\ ~WriteFailed) => Construct(disk) = Store

\* C7 as stated: when the rebuild fails in remove_document, the call returns
\* False without writing, and a fresh instance loaded from the file is the
\* complete store of before the removal.
C7_PriorStoreOnDisk ==
    [][(last'.op = "remove" /\ ~last'.ret) =>
          (disk' = disk /\ Construct(disk') = Store)]_vars

\* C7 amended: when the rebuild fails in remove_document, the call returns
\* False without writing, so the file is exactly what it was before the call;
\* a fresh instance loaded from it is the store of before the removal
\* whenever the file held that store before the call.
C7_FileUntouched ==
    [][(last'.op = "remove" /\ ~last'.ret) =>
          /\ last'.write = "none"
          /\ disk' = disk
          /\ (Construct(disk) = Store => Construct(disk') = Store)]_vars

\* a failed removal that took chunks out of memory while the file still
\* holds them all
C7_Witness ==
    /\ last.op = "remove" /\ ~last.ret /\ last.changed
    /\ disk.exists /\ disk.readable
    /\ Len(Construct(disk).documents) > Len(documents)
    /\ Names(Construct(disk), last.id)

\* C8: a call whose write in save_index failed returns False.
C8_WriteFailureReported == (AfterCall /\ WriteFailed) => ~last.ret

\* the chunk/metadata pairs of s that do not belong to the document
Survivors(s, id) ==
    SelectSeq([i \in 1..Len(s.documents) |-> <<s.documents[i], s.metadata[i]>>],
              LAMBDA p : Get(p[2], "document_id", None) # id)

\* C9: when the write in save_index fails, the store is what the operation
\* made of it (the chunks of the added text appended with their metadata and
\* vectors; the removed document's pairs gone and the index rebuilt), the
\* statistics show it, and only the file is stale.
C9_WriteFailureKeepsMemory ==
    [][(last'.write \in {"open_failed", "dump_failed"}) =>
          /\ disk' = (IF last'.write = "open_failed" THEN disk ELSE Unreadable)
          /\ last'.op = "add" =>
                \E text \in Texts :
                   LET chunks == AddChunking[text].chunks
                       n      == Len(documents)
                   IN  /\ documents' = documents \o chunks
                       /\ Len(metadata') = n + Len(chunks)
                       /\ SubSeq(metadata', 1, n) = metadata
                       /\ \A j \in 1..Len(chunks) :
                             /\ metadata'[n + j].document_id = last'.id
                             /\ metadata'[n + j].chunk_text = chunks[j]
                       /\ index'.xb = index.xb \o normalize_L2(encode(chunks))
                       /\ get_document_stats(Store').total_chunks = n + Len(chunks)
          /\ last'.op = "remove" =>
                LET keep == Survivors(Store, last'.id)
                IN  /\ documents' = [j \in 1..Len(keep) |-> keep[j][1]]
                    /\ metadata' = [j \in 1..Len(keep) |-> keep[j][2]]
                    /\ ntotal(index') = Len(keep)
                    /\ get_document_stats(Store').total_chunks = Len(keep)]_vars

\* a call that changed the store and whose write failed
C9_Witness == AfterCall /\ WriteFailed /\ last.changed /\ Len(documents) > 0

\* the index file is missing, cannot be read, or lacks an entry
NotLoadable(d) ==
    \/ ~d.exists
    \/ ~d.readable
    \/ {"index", "documents", "metadata"} \ DOMAIN d.data # {}

\* C10: a DocumentEmbeddings constructed over an index file that is absent,
\* unreadable or incomplete has no documents, no metadata and an empty index.
C10_LoadFailureStartsEmpty ==
    (last.op = "init" /\ NotLoadable(disk)) =>
        /\ documents = <<>>
        /\ metadata = <<>>
        /\ get_document_stats(Store) =
              [total_chunks |-> 0, total_documents |-> 0, index_size |-> 0]

\* a new process finds the file a failed write of an earlier one truncated
C10_Witness == last.op = "init" /\ disk = Unreadable /\ faults > 0

\* C11: a failure of the embedding model never leaves the store's calls:
\* when model.encode raises, add_document returns False and search returns
\* the empty list, and neither raises
C11_EmbeddingFailureContained ==
    /\ \A text \in Texts, meta \in MetaInputs :
          \A encFail \in 1..Len(AddChunking[text].chunks) :
              LET r == add_document(Store, disk, text, meta, encFail, "written")
              IN  r.ret = FALSE /\ r.write = "none"
    /\ \A q \in Queries, k \in SearchKs, tie \in TieRules :
          search_try(Store, q, k, tie, TRUE) = [raises |-> FALSE, result |-> <<>>]

\* an add_document in which model.encode raised, on a store whose index
\* holds vectors, so that search gets as far as model.encode
C11_Witness ==
    /\ last.op = "add" /\ ~last.ret
    /\ ntotal(index) > 0
    /\ \E q \in Queries, tie \in TieRules : search(Store, q, 10, tie) # <<>>

\* the storage positions (1-based) whose chunk and metadata a result carries
PositionsOf(s, r) ==
    {p \in 1..Min(Len(s.documents), Len(s.metadata)) :
        /\ r.text = s.documents[p]
        /\ \A key \in DOMAIN s.metadata[p] : r[key] = s.metadata[p][key]}

\* res is in non-increasing score order
Descending(res) ==
    \A i \in 1..Len(res) - 1 : res[i].similarity_score >= res[i + 1].similarity_score

\* results of equal score come in storage order
TiesInInsertionOrder(s, res) ==
    \A i, j \in 1..Len(res) :
        (i < j /\ res[i].similarity_score = res[j].similarity_score)
            => \E p \in PositionsOf(s, res[i]), p2 \in PositionsOf(s, res[j]) : p < p2

\* C12: for every query and every k, search returns at most min(k, total_chunks)
\* results (none for k below zero), in non-increasing similarity_score order,
\* results of equal score in the order their chunks were stored
C12_SearchBoundAndOrder ==
    \A q \in Queries, k \in AllKs, tie \in TieRules :
        LET res == search(Store, q, k, tie)
        IN  /\ Len(res) <= Max(0, Min(k, Len(documents)))
            /\ Descending(res)
            /\ TiesInInsertionOrder(Store, res)

\* the part of C12 that does not depend on how faiss orders equal scores
C12_BoundAndDescending ==
    \A q \in Queries, k \in AllKs, tie \in TieRules :
        LET res == search(Store, q, k, tie)
        IN  Len(res) <= Max(0, Min(k, Len(documents))) /\ Descending(res)

\* C12 for a faiss build that returns equal scores first-stored first
C12_OrderFirstStoredFirst ==
    \A q \in Queries, k \in AllKs :
        TiesInInsertionOrder(Store, search(Store, q, k, "first"))

\* C13: search returns the empty sequence whenever the store holds no chunk
\* or k <= 0, whatever the query, and with k above the number of stored
\* chunks it returns what it returns for k equal to that number
C13_EmptyAndClamped ==
    \A q \in Queries, k \in AllKs, tie \in TieRules :
        /\ (Len(documents) = 0 \/ k <= 0) => search(Store, q, k, tie) = <<>>
        /\ k > Len(documents) =>
               search(Store, q, k, tie) = search(Store, q, Len(documents), tie)

\* a store of two chunks that a search with k = 10 returns both of and a
\* search with k = 0 nothing of
C13_Witness ==
    /\ Len(documents) = 2
    /\ \E q \in Queries, tie \in TieRules :
          /\ Len(search(Store, q, 10, tie)) = 2
          /\ search(Store, q, 0, tie) = <<>>

AfterChunk == last.op = "chunk"

\* C14: for every text and every overlap >= chunk_size, _chunk_text fails
\* with an error and returns no chunk list
C14_NonPositiveStrideRejected ==
    (AfterChunk /\ last.overlap >= last.chunk_size)
        => (last.raised /\ last.chunks = <<>>)

\* the stride the code does reject: overlap = chunk_size makes range() raise
C14_ZeroStrideRaises ==
    (AfterChunk /\ last.overlap = last.chunk_size)
        => (last.raised /\ last.chunks = <<>>)

\* what the code does with overlap > chunk_size: the whole text as one chunk
C14_NegativeStrideReturnsText ==
    (AfterChunk /\ last.overlap > last.chunk_size)
        => (~last.raised /\ last.chunks = <<last.text>>)

\* C15: for overlap < chunk_size, calling _chunk_text again on the same
\* arguments returns the same sequence, the call changes nothing of the
\* store, and for a non-empty text the sequence is not empty
C15_ChunkingDeterministicNonEmpty ==
    (AfterChunk /\ last.overlap < last.chunk_size) =>
        /\ ~last.raised
        /\ last.text # <<>> => last.chunks # <<>>
        /\ _chunk_text(last.text, last.chunk_size, last.overlap).chunks = last.chunks
        /\ Store = EmptyStore /\ disk = NoFile

\* a text of whitespace only: no window is kept and the text itself comes back
C15_Witness ==
    /\ AfterChunk /\ last.overlap < last.chunk_size
    /\ last.text # <<>> /\ last.words = <<>>
    /\ last.chunks = <<last.text>>

\* the word at every position of the text is, at that position, in a chunk
Covered ==
    LET s == last.chunk_size - last.overlap
    IN  \A i \in 1..Len(last.words) :
            \E j \in 1..Len(last.chunks) :
                LET tokens == split(last.chunks[j])
                IN  \E o \in 1..Len(tokens) :
                        tokens[o] = last.words[i] /\ (j - 1) * s + o = i

\* C16 as stated: for every text and every overlap < chunk_size, each token
\* of the text, at each of its positions, occurs in at least one chunk
C16_CoverageAnyOverlap ==
    (AfterChunk /\ last.overlap < last.chunk_size) => Covered

\* C16, amended: for every text and every overlap with
\* 0 <= overlap < chunk_size, each token of the text, at each of its
\* positions, occurs in at least one returned chunk
C16_Coverage ==
    (AfterChunk /\ 0 <= last.overlap /\ last.overlap < last.chunk_size) => Covered

\* overlapping windows: several chunks over at least three words
C16_Witness ==
    /\ AfterChunk /\ 0 < last.overlap /\ last.overlap < last.chunk_size
    /\ Len(last.words) >= 3 /\ Len(last.chunks) >= 2
    /\ Covered

\* the words with one space between neighbours
SingleSpaced(ws) ==
    LET F[i \in 1..Len(ws)] == IF i = 1 THEN ws[1] ELSE F[i - 1] \o <<" ">> \o ws[i]
    IN  IF ws = <<>> THEN <<>> ELSE F[Len(ws)]

FoxChunks ==
    <<<<"t", "h", "e", " ", "q", "u", "i", "c", "k", " ", "b", "r", "o",
        "w", "n", " ", "f", "o", "x">>,
      <<"f", "o", "x", " ", "j", "u", "m", "p", "s", " ", "o", "v", "e",
        "r", " ", "t", "h", "e">>,
      <<"t", "h", "e", " ", "l", "a", "z", "y", " ", "d", "o", "g">>>>

\* C17: for a text of n >= 1 tokens and overlap < chunk_size, with
\* s = chunk_size - overlap, there is one chunk for every j with j*s < n and
\* the j-th is tokens [j*s, min(j*s + chunk_size, n)) joined by single
\* spaces; the nine-word sentence with chunk_size 4 and overlap 1 gives
\* "the quick brown fox", "fox jumps over the", "the lazy dog"
C17_StrideArithmetic ==
    (AfterChunk /\ Len(last.words) >= 1 /\ last.overlap < last.chunk_size) =>
        LET n == Len(last.words)
            s == last.chunk_size - last.overlap
            J == {j \in 0..(n - 1) : j * s < n}
        IN  /\ ~last.raised
            /\ Len(last.chunks) = Cardinality(J)
            /\ \A j \in J :
                  last.chunks[j + 1] =
                      SingleSpaced(SubSeq(last.words, j * s + 1,
                                          Min(j * s + last.chunk_size, n)))
            /\ (last.text = TextFox /\ last.chunk_size = 4 /\ last.overlap = 1)
                  => last.chunks = FoxChunks

\* the nine-word sentence chunked with chunk_size 4 and overlap 1
C17_Witness ==
    /\ AfterChunk /\ last.text = TextFox
    /\ last.chunk_size = 4 /\ last.overlap = 1
    /\ Len(last.chunks) = 3

\* C18: remove_document(id) deletes exactly the chunk/metadata pairs whose
\* document_id is id and leaves every other pair as it was and in the same
\* order; on a store with chunks of d1 and d2, remove_document("d1") leaves
\* d2's chunks only and total_documents = 1
C18_RemovalSelective ==
    [][last'.op = "remove" =>
          LET kept == Survivors(Store, last'.id)
          IN  /\ documents' = [i \in 1..Len(kept) |-> kept[i][1]]
              /\ metadata' = [i \in 1..Len(kept) |-> kept[i][2]]
              /\ (last'.id = "d1" /\ Names(Store, "d1") /\ Names(Store, "d2")) =>
                    /\ documents' # <<>>
                    /\ \A i \in 1..Len(metadata') : metadata'[i].document_id = "d2"
                    /\ get_document_stats(Store').total_documents = 1]_vars

\* remove_document("d1") took chunks out and d2's are what is left
C18_Witness ==
    /\ last.op = "remove" /\ last.id = "d1" /\ last.ret /\ last.changed
    /\ documents # <<>> /\ Len(metadata) = Len(documents)
    /\ \A i \in 1..Len(metadata) : metadata[i].document_id = "d2"
    /\ get_document_stats(Store).total_documents = 1

\* C19: remove_document(id) for an id no stored chunk has returns success and
\* leaves documents, metadata and the index contents as they were, and
\* get_similar_chunks(id, k) for such an id returns the empty list
C19_NotFoundIsNoError ==
    [][(last'.op = "remove" /\ ~Names(Store, last'.id)) =>
          /\ last'.ret
          /\ Store' = Store
          /\ \A k \in AllKs : get_similar_chunks(Store', last'.id, k) = <<>>]_vars

\* the part of C19 the code keeps: the lists are untouched, the lookup is
\* empty, and when the rebuild succeeds on an index that matched the lists
\* the call returns True with the index as it was
C19_NotFoundKeepsLists ==
    [][(last'.op = "remove" /\ ~Names(Store, last'.id)) =>
          /\ documents' = documents /\ metadata' = metadata
          /\ \A k \in AllKs : get_similar_chunks(Store', last'.id, k) = <<>>
          /\ (last'.ret /\ ntotal(index) = Len(documents)) => index' = index]_vars

\* C20: in every reachable store, total_documents is the number of distinct
\* document ids that stored metadata carries, and it is 0 exactly when no
\* chunk is stored
C20_TotalDocuments ==
    LET stats == get_document_stats(Store)
    IN  /\ stats.total_documents = Cardinality({id \in DocIds : Names(Store, id)})
        /\ stats.total_documents = 0 <=> Len(documents) = 0

\* two chunks of one document: one document, two chunks
C20_Witness ==
    /\ Len(documents) = 2
    /\ metadata[1].document_id = metadata[2].document_id
    /\ get_document_stats(Store).total_documents = 1

\* the stored chunks of the document, in storage order
ChunksOf(s, id) ==
    LET pairs == SelectSeq([i \in 1..Len(s.documents) |-> <<s.documents[i], s.metadata[i]>>],
                           LAMBDA p : Get(p[2], "document_id", None) = id)
    IN  [i \in 1..Len(pairs) |-> pairs[i][1]]

\* C21: for every integer k, get_similar_chunks(document_id, k) returns the
\* first k chunks of the document in storage order (all of them if it has
\* fewer, none for k below zero) and never more than k elements
C21_FirstKChunks ==
    \A id \in RemoveIds, k \in AllKs :
        LET res == get_similar_chunks(Store, id, k)
            own == ChunksOf(Store, id)
        IN  /\ res = SubSeq(own, 1, Min(Max(0, k), Len(own)))
            /\ Len(res) <= Max(0, k)

\* C21 for k >= 0, where the slice doc_chunks[:k] is a prefix of length k
C21_FirstKChunksNonNegative ==
    \A id \in RemoveIds, k \in AllKs :
        k >= 0 => get_similar_chunks(Store, id, k)
                      = SubSeq(ChunksOf(Store, id), 1, Min(k, Len(ChunksOf(Store, id))))

\* C22: mutating operations of two sessions are never interleaved on one
\* index instance (each session has its own instance, or one lock is held
\* around every mutating operation): on the one instance the sessions
\* share, no two of them are inside add_document or remove_document at once
C22_WriterIsolation == Cardinality({u \in SessionIds : Busy(u)}) <= 1

\* index rows, chunks and metadata correspond position by position
InStep(s) ==
    /\ ntotal(s.index) = Len(s.documents)
    /\ Len(s.documents) = Len(s.metadata)
    /\ \A i \in 1..Len(s.documents) :
          s.index.xb[i] = normalize_L2(encode(<<s.documents[i]>>))[1]

AllIdle == \A u \in SessionIds : ~Busy(u)

\* C26: two sessions calling add_document and remove_document on the shared
\* instance without a lock can leave it, once both calls have returned,
\* with index.ntotal # len(documents), len(documents) # len(metadata) or an
\* index row that is not the encoding of its chunk; calls that run one
\* after the other never do
C26_DesyncOnlyByInterleaving ==
    (AllIdle /\ ~InStep(Store)) => last.overlapped

\* both calls have returned and the store is out of step
C26_Witness ==
    /\ AllIdle /\ last.overlapped
    /\ ~InStep(Store)

AfterLexical == last.op = "lexical_search"

Corresponds(s) ==
    /\ InStep(s)
    /\ \A i \in 1..Len(s.documents) :
          Get(s.metadata[i], "chunk_text", None) = s.documents[i]

\* every search result carries its own chunk's text and its document's id
ResultsOwnText(s) ==
    \A q \in Queries, tie \in TieRules :
        LET res == search(s, q, 10, tie)
        IN  \A r \in 1..Len(res) :
                /\ res[r].text = res[r].chunk_text
                /\ \E p \in 1..Len(s.documents) :
                      /\ s.documents[p] = res[r].text
                      /\ s.metadata[p].document_id = res[r].document_id

\* C24: the empty store is in positional correspondence, and every
\* add_document or remove_document call that returns True takes a store in
\* correspondence to a store in correspondence, in which every search
\* result's text is its chunk_text and belongs to the document it names; so
\* every state reached by calls that all returned True is such a state
C24_PositionalCorrespondence ==
    /\ Corresponds(Store)
    /\ [][(Corresponds(Store) /\ last'.op \in {"add", "remove"} /\ last'.ret)
             => (Corresponds(Store') /\ ResultsOwnText(Store'))]_vars

\* after calls that all returned True, the last a removal: a store of
\* chunks in correspondence that a search returns
C24_Witness ==
    /\ faults = 0 /\ last.op = "remove" /\ last.changed /\ last.ret
    /\ documents # <<>> /\ Corresponds(Store)
    /\ \E q \in Queries, tie \in TieRules : search(Store, q, 10, tie) # <<>>

\* each chunk_id is the chunk's 0-based position among the stored chunks of
\* its document_id
ChunkIdsInOrder(s) ==
    \A i \in 1..Len(s.metadata) :
        s.metadata[i].chunk_id =
            Cardinality({j \in 1..(i - 1) :
                            s.metadata[j].document_id = s.metadata[i].document_id})

\* C25 as stated: in every reachable store each chunk_id is the chunk's
\* 0-based position among the stored chunks of the same document_id, for any
\* sequence of add_document and remove_document calls, adding a document_id
\* more than once included
C25_ChunkIdsAnySequence == ChunkIdsInOrder(Store)

\* C25, amended: as long as add_document is not called with a document_id
\* that stored chunks already carry, each chunk_id is the chunk's 0-based
\* position among the stored chunks of the same document_id, in memory and
\* in what the index file would load
C25_ChunkIdsFreshDocument ==
    /\ ChunkIdsInOrder(Store)
    /\ [][(/\ ChunkIdsInOrder(Store) /\ ChunkIdsInOrder(Construct(disk))
           /\ ~(last'.op = "add" /\ Names(Store, last'.id)))
             => (ChunkIdsInOrder(Store') /\ ChunkIdsInOrder(Construct(disk')))]_vars

\* a document of two chunks, numbered 0 and 1
C25_Witness ==
    /\ last.op = "add" /\ last.ret
    /\ Len(metadata) = 2
    /\ metadata[1].document_id = metadata[2].document_id
    /\ metadata[1].chunk_id = 0 /\ metadata[2].chunk_id = 1

BlobKeys == {"index", "documents", "metadata"}

\* the file without one entry of its pickled dict
WithoutEntry(d, key) ==
    [d EXCEPT !.data = [k \in DOMAIN d.data \ {key} |-> d.data[k]]]

\* s is the blob's three components
FromBlob(s, d) ==
    /\ d.exists /\ d.readable /\ BlobKeys \subseteq DOMAIN d.data
    /\ s.index = deserialize_index(d.data["index"])
    /\ s.documents = d.data["documents"]
    /\ s.metadata = d.data["metadata"]

\* C28: after construction either index, documents and metadata all come
\* from the persisted blob or all three are empty; a blob of which only a
\* part can be read never leaves one component loaded and another empty
C28_LoadAllOrNothing ==
    /\ last.op = "init" => (Store = EmptyStore \/ FromBlob(Store, disk))
    /\ (disk.exists /\ disk.readable) =>
          \A key \in BlobKeys :
              LET d == WithoutEntry(disk, key)
                  s == Construct(d)
              IN  s = EmptyStore \/ FromBlob(s, d)

\* constructed over a blob that has an index and documents and no metadata
C28_Witness ==
    /\ last.op = "init"
    /\ disk.exists /\ disk.readable
    /\ {"index", "documents"} \subseteq DOMAIN disk.data
    /\ disk.data["documents"] # <<>>
    /\ "metadata" \notin DOMAIN disk.data
    /\ Store = EmptyStore

StoredRefs == {metadata[i] : i \in 1..Len(metadata)}

\* C29: add_document leaves the caller's metadata map with the keys and
\* values it had, every stored chunk has a metadata record of its own, with
\* its own chunk_id and chunk_text, and a record search returns is a copy:
\* its similarity_score and text are not keys of any stored metadata
C29_CallerAndStoredMetadataApart ==
    /\ last.op = "add" =>
          /\ heap[last.caller] = last.given
          /\ last.caller \notin StoredRefs
    /\ Cardinality(StoredRefs) = Len(metadata)
    /\ \A i \in 1..Len(metadata) :
          /\ heap[metadata[i]].chunk_text = documents[i]
          /\ {"similarity_score", "text"} \cap DOMAIN heap[metadata[i]] = {}
    /\ last.op = "search" =>
          \A j \in 1..Len(last.results) :
              /\ last.results[j] \notin StoredRefs
              /\ {"similarity_score", "text"} \subseteq DOMAIN heap[last.results[j]]

\* add_document has stored a document of two chunks: two records, neither
\* the caller's, with chunk_id 0 and 1
C29_Witness ==
    /\ last.op = "add" /\ Len(metadata) = 2
    /\ heap[metadata[1]].document_id = heap[metadata[2]].document_id
    /\ heap[metadata[1]].chunk_id = 0 /\ heap[metadata[2]].chunk_id = 1
    /\ heap[metadata[1]].chunk_text # heap[metadata[2]].chunk_text
    /\ "chunk_id" \notin DOMAIN heap[last.caller]

ReadOps == {"search", "get_similar_chunks", "get_document_stats"}

\* C27: search, get_similar_chunks and get_document_stats leave documents,
\* the metadata list and every stored metadata dict, the index and the
\* index file as they were, whatever their arguments and also when
\* model.encode raises or k <= 0
C27_ReadsChangeNothing ==
    [][last'.op \in ReadOps =>
          /\ Deref(heap', Store') = Deref(heap, Store)
          /\ metadata' = metadata
          /\ disk' = disk]_vars

\* a search that returned results from a store of two chunks
C27_Witness ==
    /\ last.op = "search" /\ Len(last.results) = 2 /\ Len(documents) = 2

\* C30: on the Document Library page, after any uploads, deletes, logouts
\* and logins of a session, every document_id in the store's metadata is the
\* id of a document in the session's st.session_state.documents, and every
\* hit of a search is found by get_document_by_id
C30_NoOrphanedChunks ==
    /\ (sessions.authenticated /\ sessions.has_documents) =>
          \A i \in 1..Len(metadata) :
              Get(metadata[i], "document_id", None) \in SessionDocIds(sessions)
    /\ last.op = "search" => last.unresolved = 0

====
